---- MODULE Spec2Model ----
(***************************************************************************)
(* GaussianMixtureDiagHMM (ssm_jax/hmm/models/gmm_diag_hmm.py): a hidden   *)
(* Markov model whose emissions are, per state, a mixture of diagonal      *)
(* Gaussians, fitted by EM with conjugate priors.                          *)
(*                                                                         *)
(* Numbers.  The arrays of the program hold floats; the model computes     *)
(* with exact rationals <<n, d>> (d > 0, lowest terms), i.e. the real      *)
(* numbers the floats stand for.  Logarithms are kept in the probability   *)
(* domain: a log-probability is represented by the probability itself      *)
(* (log a + log b is a * b, logsumexp is the sum, exp of a normalised      *)
(* log-probability is the quotient), and marginal_loglik, a sum of the     *)
(* logs of the smoother's per-step normalisers, by the sequence of those   *)
(* normalisers.  The one transcendental step, exp(-z) inside the Gaussian  *)
(* density, is ExpNeg below.                                               *)
(***************************************************************************)
EXTENDS Integers, Sequences, FiniteSets, TLC

\* ------------------------------------------------------------ bounds
\* Largest number of sequences in a batch handed to e_step.
MaxBatch == 2
\* Largest number of emissions (sequences times length) in a batch.
MaxEmissions == 6
\* Largest number of M-steps in one run.
MaxIter == 1
\* Sequence lengths of a batch (all sequences of a batch have one length).
SeqLens == {1, 2, 3}
\* Values an emission coordinate takes.
EmissionValues == {1, 2}

\* ------------------------------------------------------------ rationals
RECURSIVE GCD(_, _)
GCD(a, b) == IF b = 0 THEN a ELSE GCD(b, a % b)

Abs(a) == IF a < 0 THEN -a ELSE a

\* n/d in lowest terms with a positive denominator (d # 0).
Norm(n, d) ==
  LET g == GCD(Abs(n), Abs(d))
      s == IF d < 0 THEN -1 ELSE 1
  IN  << (s * n) \div g, (s * d) \div g >>

R(n) == << n, 1 >>
Zero == R(0)
One == R(1)
Half == << 1, 2 >>

RAdd(a, b) ==
  LET g == GCD(a[2], b[2])
  IN  Norm(a[1] * (b[2] \div g) + b[1] * (a[2] \div g), (a[2] \div g) * b[2])
RNeg(a) == << -a[1], a[2] >>
RSub(a, b) == RAdd(a, RNeg(b))
RMul(a, b) ==
  LET g1 == GCD(Abs(a[1]), b[2])
      g2 == GCD(Abs(b[1]), a[2])
  IN  << (a[1] \div g1) * (b[1] \div g2), (a[2] \div g2) * (b[2] \div g1) >>
RInv(a) == IF a[1] < 0 THEN << -a[2], -a[1] >> ELSE << a[2], a[1] >>
RDiv(a, b) == RMul(a, RInv(b))
RLe(a, b) == a[1] * b[2] <= b[1] * a[2]
RLt(a, b) == a[1] * b[2] < b[1] * a[2]

\* Sum of f[i] over i in 1..n (jnp.sum / einsum contraction over one axis).
RECURSIVE SumTo(_, _)
SumTo(f, n) == IF n = 0 THEN Zero ELSE RAdd(SumTo(f, n - 1), f[n])

RSum(f) == SumTo(f, Len(f))

RECURSIVE ProdTo(_, _)
ProdTo(f, n) == IF n = 0 THEN One ELSE RMul(ProdTo(f, n - 1), f[n])

\* An array with its entries computed: the sequence << f[1], ..., f[n] >>.
Arr(f) == f \o << >>

\* jnp.ones(shape) * v for shape (n,) and (n, m).
Full1(n, v) == [i \in 1..n |-> v]
Full2(n, m, v) == [i \in 1..n |-> [j \in 1..m |-> v]]

\* ------------------------------------------------------------ state
VARIABLES
  instance,                  \* "none" | "model" | "failed": what the constructor call produced
  error,                     \* the exception the constructor raised, or "none"
  ctor_args,                 \* the arguments of the constructor call
  num_states, num_components, emission_dim,
  initial_probs, transition_matrix,            \* StandardHMM parameters
  initial_probs_concentration, transition_matrix_concentration,
  _emission_mixture_weights,                   \* [state][component]
  _emission_means,                             \* [state][component][dim]
  _emission_cov_diag_factors,                  \* [state][component][dim]
  _emission_mixture_weights_concentration,     \* [component]          (frozen)
  _emission_prior_mean,                        \* [component][dim]     (frozen)
  _emission_prior_mean_concentration,          \* [component]          (frozen)
  _emission_prior_shape,                       \* [component]          (frozen)
  _emission_prior_scale,                       \* [component][dim]     (frozen)
  batch_emissions,           \* the batch of the last e_step call
  batch_posteriors,          \* what the last e_step call returned
  prev_posteriors,           \* what the e_step call before the last returned
  returned,                  \* what the last emission_distribution / log_prior call returned
  lastOp,                    \* the last operation called
  iter                       \* number of M-steps so far

free_params == << initial_probs, transition_matrix, _emission_mixture_weights,
                  _emission_means, _emission_cov_diag_factors >>

emission_params == << _emission_mixture_weights, _emission_means,
                      _emission_cov_diag_factors >>

frozen_params == << initial_probs_concentration, transition_matrix_concentration,
                    _emission_mixture_weights_concentration, _emission_prior_mean,
                    _emission_prior_mean_concentration, _emission_prior_shape,
                    _emission_prior_scale >>

dims == << num_states, num_components, emission_dim >>

em_vars == << batch_emissions, batch_posteriors, prev_posteriors,
              returned, lastOp, iter >>

vars == << instance, error, ctor_args, dims, free_params, frozen_params, em_vars >>

\* ------------------------------------------------------------ construction
\* Default of initial_probs_concentration and transition_matrix_concentration: 1.1.
DefaultConcentration == << 11, 10 >>

\* A Python float, a Python int, or an array with its shape.
PyFloat(v) == [kind |-> "float", shape |-> << >>, value |-> v]
PyInt(n) == [kind |-> "int", shape |-> << >>, value |-> R(n)]
Array(shape, value) == [kind |-> "array", shape |-> shape, value |-> value]

\* v * jnp.ones(shape)
Ones(shape, v) ==
  IF Len(shape) = 1 THEN Full1(shape[1], v) ELSE Full2(shape[1], shape[2], v)

\* One hyperparameter of __init__: `if isinstance(x, float): _x = x * jnp.ones(shape)
\* else: _x = x`, then `assert _x.shape == shape`.  An int has no attribute shape.
Broadcast(arg, shape) ==
  IF arg.kind = "float" THEN [error |-> "none", value |-> Ones(shape, arg.value)]
  ELSE IF arg.kind = "int" THEN [error |-> "AttributeError", value |-> << >>]
  ELSE IF arg.shape = shape THEN [error |-> "none", value |-> arg.value]
  ELSE [error |-> "AssertionError", value |-> << >>]

\* The first exception raised, statements running in order.
RECURSIVE FirstError(_)
FirstError(es) ==
  IF es = << >> THEN "none"
  ELSE IF Head(es) # "none" THEN Head(es) ELSE FirstError(Tail(es))

\* StandardHMM.__init__: stores the initial distribution, the transition matrix
\* and their Dirichlet concentrations, one per state.
StandardHMM(initial_probabilities, transition_matrix_, c_init, c_trans) ==
  [initial_probs |-> initial_probabilities,
   transition_matrix |-> transition_matrix_,
   initial_probs_concentration |-> Full1(Len(initial_probabilities), c_init),
   transition_matrix_concentration |->
     Full2(Len(initial_probabilities), Len(initial_probabilities), c_trans)]

\* GaussianMixtureDiagHMM.__init__
GaussianMixtureDiagHMM(a) ==
  LET base == StandardHMM(a.initial_probabilities, a.transition_matrix,
                          DefaultConcentration, DefaultConcentration)
      K == Len(a.emission_means)
      M == Len(a.emission_means[1])
      D == Len(a.emission_means[1][1])
      conc  == Broadcast(a.emission_mixture_weights_concentration, << M >>)
      pmean == Broadcast(a.emission_prior_mean, << M, D >>)
      pconc == Broadcast(a.emission_prior_mean_concentration, << M >>)
      pshape == Broadcast(a.emission_prior_shape, << M >>)
      pscale == Broadcast(a.emission_prior_scale, << M, D >>)
  IN  [error |-> FirstError(<< conc.error, pmean.error, pconc.error,
                               pshape.error, pscale.error >>),
       num_states |-> K, num_components |-> M, emission_dim |-> D,
       initial_probs |-> base.initial_probs,
       transition_matrix |-> base.transition_matrix,
       initial_probs_concentration |-> base.initial_probs_concentration,
       transition_matrix_concentration |-> base.transition_matrix_concentration,
       emission_mixture_weights |-> a.weights,
       emission_means |-> a.emission_means,
       emission_cov_diag_factors |-> a.emission_cov_diag_factors,
       emission_mixture_weights_concentration |-> conc.value,
       emission_prior_mean |-> pmean.value,
       emission_prior_mean_concentration |-> pconc.value,
       emission_prior_shape |-> pshape.value,
       emission_prior_scale |-> pscale.value]

\* ------------------------------------------------------------ the instance
\* The instance as a value: the parameters (free) and the prior hyperparameters
\* (frozen) the methods read through self.
Self ==
  [initial_probs |-> initial_probs,
   transition_matrix |-> transition_matrix,
   initial_probs_concentration |-> initial_probs_concentration,
   transition_matrix_concentration |-> transition_matrix_concentration,
   emission_mixture_weights |-> _emission_mixture_weights,
   emission_means |-> _emission_means,
   emission_cov_diag_factors |-> _emission_cov_diag_factors,
   emission_mixture_weights_concentration |-> _emission_mixture_weights_concentration,
   emission_prior_mean |-> _emission_prior_mean,
   emission_prior_mean_concentration |-> _emission_prior_mean_concentration,
   emission_prior_shape |-> _emission_prior_shape,
   emission_prior_scale |-> _emission_prior_scale]

\* ------------------------------------------------------------ emission model
\* exp(-z) for z >= 0, by the rational function 1 / (1 + z) (the series of exp(z)
\* cut after two terms): positive, decreasing, and exact at z = 0.
ExpNeg(z) == RInv(RAdd(One, z))

\* The density at x of a normal distribution of mean loc and standard deviation
\* scale, without the constant factor 1/sqrt(2 pi).
NormalProb(x, loc, scale) ==
  LET dev == RSub(x, loc)
      z == RDiv(RMul(dev, dev), RMul(R(2), RMul(scale, scale)))
  IN  RMul(RInv(scale), ExpNeg(z))

\* exp of tfd.MultivariateNormalDiag(loc, scale_diag).log_prob(x): the product of
\* the coordinates' densities, scale_diag read as standard deviations.
MultivariateNormalDiagProb(x, loc, scale_diag) ==
  ProdTo([n \in 1..Len(x) |-> NormalProb(x[n], loc[n], scale_diag[n])], Len(x))

\* emission_distribution(state): the parameters of the MixtureSameFamily returned.
emission_distribution(self, state) ==
  [probs |-> self.emission_mixture_weights[state],
   loc |-> self.emission_means[state],
   scale_diag |-> self.emission_cov_diag_factors[state]]

\* exp of tfd.MixtureSameFamily.log_prob(x).
MixtureProb(dist, x) ==
  SumTo([m \in 1..Len(dist.probs) |->
           RMul(dist.probs[m], MultivariateNormalDiagProb(x, dist.loc[m], dist.scale_diag[m]))],
        Len(dist.probs))

\* StandardHMM._compute_conditional_logliks: [t][state], the likelihood of
\* emissions[t] under emission_distribution(state).
_compute_conditional_logliks(self, emissions) ==
  Arr([t \in 1..Len(emissions) |->
     Arr([k \in 1..Len(self.initial_probs) |->
        MixtureProb(emission_distribution(self, k), emissions[t])])])

\* ------------------------------------------------------------ smoother
\* The forward pass: for t = 1..T the predicted state distribution, the
\* normaliser c[t] = p(x[t] | x[1..t-1]) and the filtered distribution.
RECURSIVE ForwardPass(_, _, _, _)
ForwardPass(pi, A, lik, acc) ==
  LET t == Len(acc) + 1
      K == Len(pi)
      pred == IF t = 1 THEN pi
              ELSE Arr([j \in 1..K |->
                          SumTo([i \in 1..K |-> RMul(acc[t - 1].filtered[i], A[i][j])], K)])
      joint == Arr([k \in 1..K |-> RMul(pred[k], lik[t][k])])
      c == SumTo(joint, K)
      step == [predicted |-> pred, c |-> c,
               filtered |-> Arr([k \in 1..K |-> RDiv(joint[k], c)])]
  IN  IF t > Len(lik) THEN acc ELSE ForwardPass(pi, A, lik, Append(acc, step))

\* The backward pass: acc holds beta[t+1..T], beta[T] = 1, scaled by the forward
\* normalisers.
RECURSIVE BackwardPass(_, _, _, _)
BackwardPass(A, lik, fwd, acc) ==
  LET T == Len(lik)
      t == T - Len(acc)
      K == Len(A)
      beta == IF t = T THEN Arr([k \in 1..K |-> One])
              ELSE Arr([i \in 1..K |->
                      RDiv(SumTo([j \in 1..K |->
                                    RMul(RMul(A[i][j], lik[t + 1][j]), acc[1][j])], K),
                           fwd[t + 1].c)])
  IN  IF t = 0 THEN acc ELSE BackwardPass(A, lik, fwd, << beta >> \o acc)

\* hmm_smoother(initial_probs, transition_matrix, log_likelihoods): the
\* forward-backward algorithm.  marginal_loglik = sum_t log c[t] is kept as << c[t] >>.
hmm_smoother(pi, A, lik) ==
  LET T == Len(lik)
      K == Len(pi)
      fwd == ForwardPass(pi, A, lik, << >>)
      bwd == BackwardPass(A, lik, fwd, << >>)
  IN  [marginal_loglik |-> Arr([t \in 1..T |-> fwd[t].c]),
       filtered_probs |-> Arr([t \in 1..T |-> fwd[t].filtered]),
       backward |-> bwd,
       normalisers |-> Arr([t \in 1..T |-> fwd[t].c]),
       smoothed_probs |->
         Arr([t \in 1..T |-> Arr([k \in 1..K |-> RMul(fwd[t].filtered[k], bwd[t][k])])])]

\* compute_transition_probs(transition_matrix, posterior): the expected number of
\* transitions i -> j, sum over t of p(z[t] = i, z[t+1] = j | x[1..T]).
compute_transition_probs(A, lik, posterior) ==
  LET T == Len(lik)
      K == Len(A)
      xi(t, i, j) ==
        RDiv(RMul(RMul(posterior.filtered_probs[t][i], A[i][j]),
                  RMul(lik[t + 1][j], posterior.backward[t + 1][j])),
             posterior.normalisers[t + 1])
  IN  [i \in 1..K |-> [j \in 1..K |-> SumTo([t \in 1..(T - 1) |-> xi(t, i, j)], T - 1)]]

\* ------------------------------------------------------------ E-step
\* prob_fn without the subtraction of logsumexp: the unnormalised joint density.
prob_fn_unnormalised(self, x) ==
  LET K == Len(self.emission_means)
      M == Len(self.emission_means[1])
  IN  Arr([k \in 1..K |-> Arr([m \in 1..M |->
            RMul(MultivariateNormalDiagProb(x, self.emission_means[k][m],
                                            self.emission_cov_diag_factors[k][m]),
                 self.emission_mixture_weights[k][m])])])

\* prob_fn(x) of _single_e_step: [state][component], the responsibility of each
\* component for x: exp(logprobs - logsumexp(logprobs, axis=-1)).
prob_fn(self, x) ==
  LET K == Len(self.emission_means)
      M == Len(self.emission_means[1])
      probs == Arr([k \in 1..K |-> Arr([m \in 1..M |->
                  RMul(MultivariateNormalDiagProb(x, self.emission_means[k][m],
                                                  self.emission_cov_diag_factors[k][m]),
                       self.emission_mixture_weights[k][m])])])
  IN  Arr([k \in 1..K |-> Arr([m \in 1..M |-> RDiv(probs[k][m], SumTo(probs[k], M))])])

\* The moments with the emissions entering SxxT once ("tkm,tn->kmn" for SxxT too).
Moments_once(Ntkm, emissions, K, M, D) ==
  LET T == Len(emissions)
      first == [k \in 1..K |-> [m \in 1..M |-> [n \in 1..D |->
                 SumTo([t \in 1..T |-> RMul(Ntkm[t][k][m], emissions[t][n])], T)]]]
  IN  [N |-> [k \in 1..K |-> [m \in 1..M |-> SumTo([t \in 1..T |-> Ntkm[t][k][m]], T)]],
       Sx |-> first,
       SxxT |-> first]

\* The three einsum lines of _single_e_step and N.sum(axis=0): from the joint
\* weights N[t][state][component] and the emissions, N, Sx and SxxT.
Moments(Ntkm, emissions, K, M, D) ==
  LET T == Len(emissions)
  IN  [N |-> [k \in 1..K |-> [m \in 1..M |-> SumTo([t \in 1..T |-> Ntkm[t][k][m]], T)]],
       Sx |-> [k \in 1..K |-> [m \in 1..M |-> [n \in 1..D |->
                 SumTo([t \in 1..T |-> RMul(Ntkm[t][k][m], emissions[t][n])], T)]]],
       SxxT |-> [k \in 1..K |-> [m \in 1..M |-> [n \in 1..D |->
                 SumTo([t \in 1..T |->
                          RMul(RMul(Ntkm[t][k][m], emissions[t][n]), emissions[t][n])], T)]]]]

\* _single_e_step(emissions): the sufficient statistics of one sequence.
_single_e_step(self, emissions) ==
  LET T == Len(emissions)
      K == Len(self.emission_means)
      M == Len(self.emission_means[1])
      D == Len(self.emission_means[1][1])
      lik == _compute_conditional_logliks(self, emissions)
      posterior == hmm_smoother(self.initial_probs, self.transition_matrix, lik)
      prob_denses == Arr([t \in 1..T |-> prob_fn(self, emissions[t])])
      Ntkm == Arr([t \in 1..T |-> Arr([k \in 1..K |-> Arr([m \in 1..M |->
                 RMul(posterior.smoothed_probs[t][k], prob_denses[t][k][m])])])])
      stats == Moments(Ntkm, emissions, K, M, D)
  IN  [marginal_loglik |-> posterior.marginal_loglik,
       initial_probs |-> posterior.smoothed_probs[1],
       trans_probs |-> compute_transition_probs(self.transition_matrix, lik, posterior),
       N |-> stats.N,
       Sx |-> stats.Sx,
       SxxT |-> stats.SxxT]

\* The statistics of one posterior record times the factor w.
Scaled(p, w) ==
  [marginal_loglik |-> p.marginal_loglik,
   initial_probs |-> [k \in DOMAIN p.initial_probs |-> RMul(w, p.initial_probs[k])],
   trans_probs |-> [i \in DOMAIN p.trans_probs |-> [j \in DOMAIN p.trans_probs[i] |->
                      RMul(w, p.trans_probs[i][j])]],
   N |-> [k \in DOMAIN p.N |-> [m \in DOMAIN p.N[k] |-> RMul(w, p.N[k][m])]],
   Sx |-> [k \in DOMAIN p.Sx |-> [m \in DOMAIN p.Sx[k] |-> [n \in DOMAIN p.Sx[k][m] |->
             RMul(w, p.Sx[k][m][n])]]],
   SxxT |-> [k \in DOMAIN p.SxxT |-> [m \in DOMAIN p.SxxT[k] |->
               [n \in DOMAIN p.SxxT[k][m] |-> RMul(w, p.SxxT[k][m][n])]]]]

\* An e_step that averages over the batch: every record divided by the batch size.
e_step_mean(self, batch) ==
  Arr([b \in 1..Len(batch) |-> Scaled(_single_e_step(self, batch[b]), << 1, Len(batch) >>)])

\* An e_step that smooths every sequence with the likelihoods of the first one.
e_step_shared(self, batch) ==
  [b \in 1..Len(batch) |->
     IF Len(batch[b]) = Len(batch[1])
     THEN [_single_e_step(self, batch[b]) EXCEPT
             !.marginal_loglik = _single_e_step(self, batch[1]).marginal_loglik,
             !.N = _single_e_step(self, batch[1]).N]
     ELSE _single_e_step(self, batch[b])]

\* e_step(batch_emissions): vmap(_single_e_step), one record per sequence.
e_step(self, batch) == Arr([b \in 1..Len(batch) |-> _single_e_step(self, batch[b])])

\* ------------------------------------------------------------ conjugate priors
\* tfd.Dirichlet(concentration).mode(): (c - 1) / (sum(c) - len(c)).
DirichletMode(concentration) ==
  LET n == Len(concentration)
      total == SumTo(concentration, n)
  IN  [m \in 1..n |-> RDiv(RSub(concentration[m], One), RSub(total, R(n)))]

\* NormalInverseGamma(loc, mean_concentration, shape, scale): loc and scale have one
\* entry per emission coordinate, mean_concentration and shape are scalars.
NormalInverseGamma(loc, mean_concentration, shape, scale) ==
  [loc |-> loc, mean_concentration |-> mean_concentration,
   shape |-> shape, scale |-> scale]

\* nig_posterior_update(nig_prior, (Sx, SxxT, N)): the conjugate update; with N = 0
\* the prior, unchanged.
nig_posterior_update(nig_prior, stats) ==
  LET Sx == stats[1]
      SxxT == stats[2]
      N == stats[3]
      D == Len(nig_prior.loc)
      conc_post == RAdd(nig_prior.mean_concentration, N)
      xbar == [n \in 1..D |-> RDiv(Sx[n], N)]
      sq(x) == RMul(x, x)
  IN  IF N = Zero THEN nig_prior
      ELSE NormalInverseGamma(
             [n \in 1..D |->
                RDiv(RAdd(RMul(nig_prior.mean_concentration, nig_prior.loc[n]), Sx[n]),
                     conc_post)],
             conc_post,
             RAdd(nig_prior.shape, RMul(Half, N)),
             [n \in 1..D |->
                RAdd(RAdd(nig_prior.scale[n],
                          RMul(Half, RSub(SxxT[n], RMul(Sx[n], xbar[n])))),
                     RMul(RDiv(RMul(nig_prior.mean_concentration, N),
                               RMul(R(2), conc_post)),
                          sq(RSub(xbar[n], nig_prior.loc[n]))))])

\* NormalInverseGamma.mode(): (variance mode, mean mode).
NIGMode(nig) ==
  << [n \in 1..Len(nig.loc) |-> RDiv(nig.scale[n], RAdd(nig.shape, One))], nig.loc >>

\* ------------------------------------------------------------ M-step
\* posterior_mode(loc, mean_concentration, shape, scale, *stats) of _single_m_step.
posterior_mode(loc, mean_concentration, shape, scale, stats) ==
  NIGMode(nig_posterior_update(NormalInverseGamma(loc, mean_concentration, shape, scale),
                               stats))

\* _single_m_step with nu_post = the prior concentration alone, the counts left out.
_single_m_step_prior_only(self, Sx, SxxT, N) ==
  LET M == Len(N)
      nu_post == self.emission_mixture_weights_concentration
      mixture_weights == DirichletMode(nu_post)
      modes == [m \in 1..M |->
                  posterior_mode(self.emission_prior_mean[m],
                                 self.emission_prior_mean_concentration[m],
                                 self.emission_prior_shape[m],
                                 self.emission_prior_scale[m],
                                 << Sx[m], SxxT[m], N[m] >>)]
      cov_diag_factors == [m \in 1..M |-> modes[m][1]]
      means == [m \in 1..M |-> modes[m][2]]
  IN  << mixture_weights, cov_diag_factors, means >>

\* _single_m_step(Sx, SxxT, N) for one state: (mixture_weights, cov_diag_factors,
\* means), the last two stacked over the components by vmap(posterior_mode).
_single_m_step(self, Sx, SxxT, N) ==
  LET M == Len(N)
      nu_post == [m \in 1..M |-> RAdd(self.emission_mixture_weights_concentration[m], N[m])]
      mixture_weights == DirichletMode(nu_post)
      modes == [m \in 1..M |->
                  posterior_mode(self.emission_prior_mean[m],
                                 self.emission_prior_mean_concentration[m],
                                 self.emission_prior_shape[m],
                                 self.emission_prior_scale[m],
                                 << Sx[m], SxxT[m], N[m] >>)]
      cov_diag_factors == [m \in 1..M |-> modes[m][1]]
      means == [m \in 1..M |-> modes[m][2]]
  IN  << mixture_weights, cov_diag_factors, means >>

\* tree_map(partial(jnp.sum, axis=0), batch_posteriors): every field summed over the
\* batch (a sum of marginal_loglik is the concatenation of the normalisers).
RECURSIVE ConcatTo(_, _)
ConcatTo(f, n) == IF n = 0 THEN << >> ELSE ConcatTo(f, n - 1) \o f[n]

SumBatch(batch_posteriors_) ==
  LET B == Len(batch_posteriors_)
      K == Len(batch_posteriors_[1].N)
      M == Len(batch_posteriors_[1].N[1])
      D == Len(batch_posteriors_[1].Sx[1][1])
  IN  [marginal_loglik |-> ConcatTo([b \in 1..B |-> batch_posteriors_[b].marginal_loglik], B),
       initial_probs |-> [k \in 1..K |->
          SumTo([b \in 1..B |-> batch_posteriors_[b].initial_probs[k]], B)],
       trans_probs |-> [i \in 1..K |-> [j \in 1..K |->
          SumTo([b \in 1..B |-> batch_posteriors_[b].trans_probs[i][j]], B)]],
       N |-> [k \in 1..K |-> [m \in 1..M |->
          SumTo([b \in 1..B |-> batch_posteriors_[b].N[k][m]], B)]],
       Sx |-> [k \in 1..K |-> [m \in 1..M |-> [n \in 1..D |->
          SumTo([b \in 1..B |-> batch_posteriors_[b].Sx[k][m][n]], B)]]],
       SxxT |-> [k \in 1..K |-> [m \in 1..M |-> [n \in 1..D |->
          SumTo([b \in 1..B |-> batch_posteriors_[b].SxxT[k][m][n]], B)]]]]

\* _m_step_emissions unpacking (mixture_weights, means, cov_diag_factors): the
\* variance modes land in the means and the mean modes in the factors.
_m_step_emissions_swapped(self, batch_posteriors_) ==
  LET stats == SumBatch(batch_posteriors_)
      K == Len(stats.N)
      out == [k \in 1..K |-> _single_m_step(self, stats.Sx[k], stats.SxxT[k], stats.N[k])]
  IN  [emission_mixture_weights |-> [k \in 1..K |-> out[k][1]],
       emission_cov_diag_factors |-> [k \in 1..K |-> out[k][3]],
       emission_means |-> [k \in 1..K |-> out[k][2]]]

\* _m_step_emissions moving the means half way from the old values to the modes.
_m_step_emissions_blend(self, batch_posteriors_) ==
  LET stats == SumBatch(batch_posteriors_)
      K == Len(stats.N)
      out == [k \in 1..K |-> _single_m_step(self, stats.Sx[k], stats.SxxT[k], stats.N[k])]
  IN  [emission_mixture_weights |-> [k \in 1..K |-> out[k][1]],
       emission_cov_diag_factors |-> [k \in 1..K |-> out[k][2]],
       emission_means |-> [k \in 1..K |-> [m \in DOMAIN out[k][3] |->
          [n \in DOMAIN out[k][3][m] |->
             RMul(Half, RAdd(self.emission_means[k][m][n], out[k][3][m][n]))]]]]

\* _m_step_emissions(batch_emissions, batch_posteriors): the values it writes to
\* _emission_mixture_weights, _emission_cov_diag_factors and _emission_means.
_m_step_emissions(self, batch_posteriors_) ==
  LET stats == SumBatch(batch_posteriors_)
      K == Len(stats.N)
      out == [k \in 1..K |-> _single_m_step(self, stats.Sx[k], stats.SxxT[k], stats.N[k])]
      mixture_weights == [k \in 1..K |-> out[k][1]]
      cov_diag_factors == [k \in 1..K |-> out[k][2]]
      means == [k \in 1..K |-> out[k][3]]
  IN  [emission_mixture_weights |-> mixture_weights,
       emission_cov_diag_factors |-> cov_diag_factors,
       emission_means |-> means]

\* ------------------------------------------------------------ log prior
\* log_prior(): the sum of log-densities, kept as its terms: each distribution with
\* the point log_prob is evaluated at.  NormalInverseGamma.log_prob takes
\* (variance, mean).
log_prior(self) ==
  LET K == Len(self.emission_means)
      M == Len(self.emission_means[1])
  IN  [initial |-> [dirichlet |-> self.initial_probs_concentration,
                    at |-> self.initial_probs],
       transition |-> [dirichlet |-> self.transition_matrix_concentration,
                       at |-> self.transition_matrix],
       weights |-> [dirichlet |-> self.emission_mixture_weights_concentration,
                    at |-> self.emission_mixture_weights],
       emissions |-> [k \in 1..K |-> [m \in 1..M |->
          [nig |-> NormalInverseGamma(self.emission_prior_mean[m],
                                      self.emission_prior_mean_concentration[m],
                                      self.emission_prior_shape[m],
                                      self.emission_prior_scale[m]),
           variance |-> self.emission_cov_diag_factors[k][m],
           mean |-> self.emission_means[k][m]]]]]

\* The value of a variable that holds nothing.
Nothing == << >>

\* Before the constructor call: no instance.
Init ==
  /\ instance = "none" /\ error = "none" /\ ctor_args = Nothing
  /\ num_states = 0 /\ num_components = 0 /\ emission_dim = 0
  /\ initial_probs = Nothing /\ transition_matrix = Nothing
  /\ initial_probs_concentration = Nothing
  /\ transition_matrix_concentration = Nothing
  /\ _emission_mixture_weights = Nothing
  /\ _emission_means = Nothing
  /\ _emission_cov_diag_factors = Nothing
  /\ _emission_mixture_weights_concentration = Nothing
  /\ _emission_prior_mean = Nothing
  /\ _emission_prior_mean_concentration = Nothing
  /\ _emission_prior_shape = Nothing
  /\ _emission_prior_scale = Nothing
  /\ batch_emissions = Nothing /\ batch_posteriors = Nothing
  /\ prev_posteriors = Nothing
  /\ returned = Nothing
  /\ lastOp = "none"
  /\ iter = 0

\* The constructor call GaussianMixtureDiagHMM(**a): it leaves the instance, or
\* raises and leaves none.
Construct(a) ==
  LET m == GaussianMixtureDiagHMM(a)
  IN  /\ instance = "none"
      /\ ctor_args' = a
      /\ error' = m.error
      /\ IF m.error = "none"
         THEN /\ instance' = "model"
              /\ num_states' = m.num_states
              /\ num_components' = m.num_components
              /\ emission_dim' = m.emission_dim
              /\ initial_probs' = m.initial_probs
              /\ transition_matrix' = m.transition_matrix
              /\ initial_probs_concentration' = m.initial_probs_concentration
              /\ transition_matrix_concentration' = m.transition_matrix_concentration
              /\ _emission_mixture_weights' = m.emission_mixture_weights
              /\ _emission_means' = m.emission_means
              /\ _emission_cov_diag_factors' = m.emission_cov_diag_factors
              /\ _emission_mixture_weights_concentration' =
                   m.emission_mixture_weights_concentration
              /\ _emission_prior_mean' = m.emission_prior_mean
              /\ _emission_prior_mean_concentration' = m.emission_prior_mean_concentration
              /\ _emission_prior_shape' = m.emission_prior_shape
              /\ _emission_prior_scale' = m.emission_prior_scale
         ELSE /\ instance' = "failed"
              /\ num_states' = 0 /\ num_components' = 0 /\ emission_dim' = 0
              /\ initial_probs' = Nothing /\ transition_matrix' = Nothing
              /\ initial_probs_concentration' = Nothing
              /\ transition_matrix_concentration' = Nothing
              /\ _emission_mixture_weights' = Nothing
              /\ _emission_means' = Nothing
              /\ _emission_cov_diag_factors' = Nothing
              /\ _emission_mixture_weights_concentration' = Nothing
              /\ _emission_prior_mean' = Nothing
              /\ _emission_prior_mean_concentration' = Nothing
              /\ _emission_prior_shape' = Nothing
              /\ _emission_prior_scale' = Nothing
      /\ batch_emissions' = Nothing /\ batch_posteriors' = Nothing
      /\ prev_posteriors' = Nothing
      /\ returned' = Nothing
      /\ lastOp' = "__init__"
      /\ iter' = 0

\* ------------------------------------------------------------ operations
Alive == instance = "model"

\* The batches of e_step: 1..MaxBatch sequences of one length, each emission a
\* vector of D coordinates.
BatchShapes == { bt \in (1..MaxBatch) \X SeqLens : bt[1] * bt[2] <= MaxEmissions }

Batches(D) ==
  UNION { [1..bt[1] -> [1..bt[2] -> [1..D -> {R(v) : v \in EmissionValues}]]] :
            bt \in BatchShapes }

\* Exact arithmetic on the parameters an M-step of a mixture wrote needs integers
\* beyond 32 bits: there the run ends with the M-step; a single Gaussian is refitted
\* up to MaxIter times.
WithinArithmetic == iter = 0 \/ (num_states = 1 /\ num_components = 1)

\* A run fits one batch: every e_step call of a run gets the batch of the first.
BatchArgs ==
  IF batch_emissions = Nothing THEN Batches(emission_dim) ELSE { batch_emissions }

\* e_step(batch_emissions).  The calls alternate: after an e_step comes the M-step.
EStep(batch) ==
  /\ Alive
  /\ lastOp # "e_step"
  /\ WithinArithmetic
  /\ batch_emissions' = batch
  /\ batch_posteriors' = e_step(Self, batch)
  /\ prev_posteriors' = batch_posteriors
  /\ returned' = Nothing
  /\ lastOp' = "e_step"
  /\ UNCHANGED << instance, error, ctor_args, dims, free_params, frozen_params, iter >>

\* _m_step_emissions(batch_emissions, batch_posteriors) on what the last e_step
\* returned.
MStep ==
  /\ Alive
  /\ lastOp = "e_step"
  /\ iter < MaxIter
  /\ LET new == _m_step_emissions(Self, batch_posteriors)
     IN  /\ _emission_mixture_weights' = new.emission_mixture_weights
         /\ _emission_cov_diag_factors' = new.emission_cov_diag_factors
         /\ _emission_means' = new.emission_means
  /\ iter' = iter + 1
  /\ returned' = Nothing
  /\ lastOp' = "m_step"
  /\ UNCHANGED << instance, error, ctor_args, dims, initial_probs, transition_matrix,
                  frozen_params, batch_emissions, batch_posteriors, prev_posteriors >>

\* The reads are called on fitted parameters: after an M-step.
Fitted == iter > 0 /\ lastOp # "e_step"

\* emission_distribution(state)
EmissionDistribution(state) ==
  /\ Alive
  /\ Fitted
  /\ returned' = emission_distribution(Self, state)
  /\ lastOp' = "emission_distribution"
  /\ UNCHANGED << instance, error, ctor_args, dims, free_params, frozen_params,
                  batch_emissions, batch_posteriors, prev_posteriors, iter >>

\* log_prior()
LogPrior ==
  /\ Alive
  /\ Fitted
  /\ returned' = log_prior(Self)
  /\ lastOp' = "log_prior"
  /\ UNCHANGED << instance, error, ctor_args, dims, free_params, frozen_params,
                  batch_emissions, batch_posteriors, prev_posteriors, iter >>

\* ------------------------------------------------------------ constructor calls
CtorArgs(pi, A, w, mu, s, conc, pmean, pconc, pshape, pscale) ==
  [initial_probabilities |-> pi, transition_matrix |-> A, weights |-> w,
   emission_means |-> mu, emission_cov_diag_factors |-> s,
   emission_mixture_weights_concentration |-> conc,
   emission_prior_mean |-> pmean,
   emission_prior_mean_concentration |-> pconc,
   emission_prior_shape |-> pshape,
   emission_prior_scale |-> pscale]

\* (num_states, num_components, emission_dim) of the models fitted.
ModelShapes == { << 1, 1, 1 >>, << 1, 2, 1 >>, << 2, 1, 1 >>, << 2, 2, 1 >> }

Identity(K) == [i \in 1..K |-> [j \in 1..K |-> IF i = j THEN One ELSE Zero]]

\* (initial_probs, transition_matrix): uniform, or starting in state 1 and staying.
Chains(K) ==
  { << Full1(K, << 1, K >>), Full2(K, K, << 1, K >>) >>,
    << [k \in 1..K |-> IF k = 1 THEN One ELSE Zero], Identity(K) >> }

\* Component m of every state starts at mean m.
Means(K, M, D) == [k \in 1..K |-> [m \in 1..M |-> [n \in 1..D |-> R(m)]]]

\* The initial standard deviations (one value for every state, component and
\* coordinate): 1, as random_initialization sets them, and for a single Gaussian 3/2.
InitialScales(sh) == IF sh[1] = 1 /\ sh[2] = 1 THEN { One, << 3, 2 >> } ELSE { One }

\* Component m gets base + m - 1.
PerComponent(M, base) == [m \in 1..M |-> RAdd(base, R(m - 1))]

\* The prior hyperparameters (concentration, mean, mean concentration, shape,
\* scale): floats, or arrays with one entry per component.
Priors(M, D) ==
  { << PyFloat(<< 11, 10 >>), PyFloat(Zero), PyFloat(One), PyFloat(One), PyFloat(One) >>,
    << Array(<< M >>, PerComponent(M, R(2))),
       Array(<< M, D >>, [m \in 1..M |-> [n \in 1..D |-> R(m)]]),
       PyFloat(One),
       Array(<< M >>, PerComponent(M, One)),
       PyFloat(R(4)) >> }

FitArgsOf(sh) ==
  { CtorArgs(ch[1], ch[2], Full2(sh[1], sh[2], << 1, sh[2] >>),
             Means(sh[1], sh[2], sh[3]),
             [k \in 1..sh[1] |-> Full2(sh[2], sh[3], s0)],
             pr[1], pr[2], pr[3], pr[4], pr[5]) :
      ch \in Chains(sh[1]), s0 \in InitialScales(sh), pr \in Priors(sh[2], sh[3]) }

FitArgs == UNION { FitArgsOf(sh) : sh \in ModelShapes }

\* ------------------------------------------------------------ specification
Next ==
  \/ \E a \in FitArgs : Construct(a)
  \/ \E batch \in BatchArgs : EStep(batch)
  \/ MStep
  \/ \E state \in 1..num_states : EmissionDistribution(state)
  \/ LogPrior

Spec == Init /\ [][Next]_vars

\* ------------------------------------------------------------ constructor alone
\* (num_states, num_components, emission_dim) of the constructor calls.
CtorShapes == { << 1, 1, 1 >>, << 1, 2, 1 >>, << 2, 1, 2 >> }

\* The shapes of the arrays passed for a hyperparameter: 0-d, (M,), (M+1,), (M, D)
\* and (M, D+1).
ArrayShapes(M, D) == { << >>, << M >>, << M + 1 >>, << M, D >>, << M, D + 1 >> }

\* An array of the shape, row m filled with m + 1.
Filled(shape) ==
  IF Len(shape) = 0 THEN R(2)
  ELSE IF Len(shape) = 1 THEN PerComponent(shape[1], R(2))
  ELSE [m \in 1..shape[1] |-> [n \in 1..shape[2] |-> R(m + 1)]]

\* What a caller passes for one hyperparameter: a float, an int, or an array.
HyperArgs(M, D) ==
  { PyFloat(R(2)), PyInt(2) } \cup { Array(sh, Filled(sh)) : sh \in ArrayShapes(M, D) }

\* The constructor call on a model of shape sh with the five hyperparameters h.
CtorCall(sh, h) ==
  CtorArgs(Full1(sh[1], << 1, sh[1] >>), Full2(sh[1], sh[1], << 1, sh[1] >>),
           Full2(sh[1], sh[2], << 1, sh[2] >>),
           Means(sh[1], sh[2], sh[3]),
           [k \in 1..sh[1] |-> Full2(sh[2], sh[3], One)],
           h[1], h[2], h[3], h[4], h[5])

NextCtor ==
  /\ instance = "none"
  /\ \E sh \in CtorShapes :
       \E h1 \in HyperArgs(sh[2], sh[3]), h2 \in HyperArgs(sh[2], sh[3]),
          h3 \in HyperArgs(sh[2], sh[3]), h4 \in HyperArgs(sh[2], sh[3]),
          h5 \in HyperArgs(sh[2], sh[3]) :
         Construct(CtorCall(sh, << h1, h2, h3, h4, h5 >>))

SpecCtor == Init /\ [][NextCtor]_vars

\* ------------------------------------------------------------ properties
AfterEStep == Alive /\ lastOp = "e_step"

AfterMStep == Alive /\ lastOp = "m_step"

SingleGaussian == num_states = 1 /\ num_components = 1

States == 1..num_states

Components == 1..num_components

Coordinates == 1..emission_dim

Sequences_ == 1..Len(batch_emissions)

\* N, Sx and SxxT of a batch of posteriors, summed over its sequences.
BatchMoments(posts) == LET s == SumBatch(posts) IN << s.N, s.Sx, s.SxxT >>

Add2(a, b) == [k \in DOMAIN a |-> [m \in DOMAIN a[k] |-> RAdd(a[k][m], b[k][m])]]

Add3(a, b) == [k \in DOMAIN a |-> Add2(a[k], b[k])]

AddMoments(p, q) == << Add2(p[1], q[1]), Add3(p[2], q[2]), Add3(p[3], q[3]) >>

\* A rational that is a number: no division by zero went into it.
IsFinite(r) == r[2] > 0

\* C1: for every way of cutting the batch into a front part A and a rest B, the
\* summed N, Sx and SxxT of e_step(A) plus those of e_step(B) are the summed
\* statistics of e_step on the whole batch, and the M-step on the records of A
\* followed by those of B writes what the M-step on the whole batch's records writes.
StatisticsAdditive ==
  AfterEStep =>
    \A j \in 1..(Len(batch_emissions) - 1) :
      LET A == e_step(Self, SubSeq(batch_emissions, 1, j))
          B == e_step(Self, SubSeq(batch_emissions, j + 1, Len(batch_emissions)))
      IN  /\ AddMoments(BatchMoments(A), BatchMoments(B)) = BatchMoments(batch_posteriors)
          /\ _m_step_emissions(Self, A \o B) = _m_step_emissions(Self, batch_posteriors)

StatisticsAdditiveWitness ==
  /\ AfterEStep
  /\ num_states = 2 /\ num_components = 2
  /\ Len(batch_emissions) = 2
  /\ batch_emissions[1] # batch_emissions[2]
  /\ StatisticsAdditive

\* C2: after the M-step, a (state, component) pair whose summed N is zero has its
\* mean equal to the prior mean and its cov_diag_factors equal to
\* prior_scale / (prior_shape + 1); the call did not raise and every number written
\* for that state is finite.
EmptyComponentKeepsPrior ==
  AfterMStep =>
    LET stats == SumBatch(batch_posteriors)
    IN  \A k \in States : \A m \in Components :
          stats.N[k][m] = Zero =>
            /\ error = "none"
            /\ _emission_means[k][m] = _emission_prior_mean[m]
            /\ \A n \in Coordinates :
                 /\ _emission_cov_diag_factors[k][m][n] =
                      RDiv(_emission_prior_scale[m][n],
                           RAdd(_emission_prior_shape[m], One))
                 /\ IsFinite(_emission_cov_diag_factors[k][m][n])
                 /\ IsFinite(_emission_means[k][m][n])
            /\ IsFinite(_emission_mixture_weights[k][m])

EmptyComponentWitness ==
  /\ AfterMStep
  /\ num_components = 2
  /\ \E k \in States : \A m \in Components :
       /\ SumBatch(batch_posteriors).N[k][m] = Zero
       /\ _emission_means[k][m] = _emission_prior_mean[m]
       /\ _emission_prior_mean[m] # ctor_args.emission_means[k][m]
       /\ _emission_cov_diag_factors[k][m] # ctor_args.emission_cov_diag_factors[k][m]

\* C3: after the M-step, for every state whose concentrations all exceed 1 and whose
\* counts are non-negative, weight c is (conc[c] + N[c] - 1) / (sum(conc + N) - M),
\* every weight is non-negative and the weights sum to 1.
MixtureWeightsOnSimplex ==
  AfterMStep =>
    LET stats == SumBatch(batch_posteriors)
        conc == _emission_mixture_weights_concentration
        M == num_components
    IN  \A k \in States :
          (\A c \in Components : RLt(One, conc[c]) /\ RLe(Zero, stats.N[k][c])) =>
            LET total == SumTo([c \in Components |-> RAdd(conc[c], stats.N[k][c])], M)
            IN  /\ \A c \in Components :
                     /\ _emission_mixture_weights[k][c] =
                          RDiv(RSub(RAdd(conc[c], stats.N[k][c]), One),
                               RSub(total, R(M)))
                     /\ RLe(Zero, _emission_mixture_weights[k][c])
                /\ SumTo(_emission_mixture_weights[k], M) = One

MixtureWeightsWitness ==
  /\ AfterMStep
  /\ num_components = 2
  /\ \E k \in States :
       /\ RLt(Zero, SumBatch(batch_posteriors).N[k][1])
       /\ _emission_mixture_weights[k][1] # _emission_mixture_weights[k][2]
       /\ _emission_mixture_weights[k] # ctor_args.weights[k]
       /\ SumTo(_emission_mixture_weights[k], 2) = One

\* C4: after the M-step, the scale_diag that emission_distribution hands to the
\* diagonal Gaussian is a standard deviation: its square is the variance mode of the
\* Normal-Inverse-Gamma posterior of that state, component and coordinate.
ScaleDiagIsStandardDeviation ==
  AfterMStep =>
    LET stats == SumBatch(batch_posteriors)
    IN  \A k \in States : \A m \in Components : \A n \in Coordinates :
          LET variance_mode ==
                posterior_mode(_emission_prior_mean[m],
                               _emission_prior_mean_concentration[m],
                               _emission_prior_shape[m],
                               _emission_prior_scale[m],
                               << stats.Sx[k][m], stats.SxxT[k][m], stats.N[k][m] >>)[1][n]
              scale == emission_distribution(Self, k).scale_diag[m][n]
          IN  RMul(scale, scale) = variance_mode

\* C5: with one state and one component, N is the sequence length, Sx the sum of the
\* emissions and SxxT the sum of their squares, and the M-step writes the mean
\* (prior_concentration * prior_location + Sx) / (prior_concentration + N); with the
\* prior (0, 1, 1, 1) and the sequence 1, 1, 1 these are 3, 3, 3 and 3/4.
Scenario ==
  /\ SingleGaussian /\ emission_dim = 1
  /\ _emission_prior_mean = << << Zero >> >>
  /\ _emission_prior_mean_concentration = << One >>
  /\ _emission_prior_shape = << One >>
  /\ _emission_prior_scale = << << One >> >>
  /\ batch_emissions = << << << One >>, << One >>, << One >> >> >>

SingleGaussianStatistics ==
  /\ (AfterEStep /\ SingleGaussian) =>
       \A b \in Sequences_ :
         LET x == batch_emissions[b]
             T == Len(x)
             p == batch_posteriors[b]
         IN  /\ p.N[1][1] = R(T)
             /\ \A n \in Coordinates :
                  /\ p.Sx[1][1][n] = SumTo([t \in 1..T |-> x[t][n]], T)
                  /\ p.SxxT[1][1][n] = SumTo([t \in 1..T |-> RMul(x[t][n], x[t][n])], T)
  /\ (AfterEStep /\ Scenario) =>
       /\ batch_posteriors[1].N = << << R(3) >> >>
       /\ batch_posteriors[1].Sx = << << << R(3) >> >> >>
       /\ batch_posteriors[1].SxxT = << << << R(3) >> >> >>
  /\ (AfterMStep /\ SingleGaussian) =>
       LET stats == SumBatch(batch_posteriors)
       IN  \A n \in Coordinates :
             _emission_means[1][1][n] =
               RDiv(RAdd(RMul(_emission_prior_mean_concentration[1],
                              _emission_prior_mean[1][n]),
                         stats.Sx[1][1][n]),
                    RAdd(_emission_prior_mean_concentration[1], stats.N[1][1]))
  /\ (AfterMStep /\ Scenario /\ iter = 1) => _emission_means = << << << << 3, 4 >> >> >> >>

ScenarioWitness ==
  /\ AfterMStep /\ Scenario /\ iter = 1
  /\ SumBatch(batch_posteriors).N = << << R(3) >> >>
  /\ _emission_means[1][1][1] = << 3, 4 >>

\* C6: for every emission and state the responsibilities prob_fn returns are
\* non-negative and sum to 1 over the components; hence for every sequence and state
\* the N of the state, summed over the components, is the sum over time of the
\* smoothed probability of the state, and N summed over everything is the length.
ResponsibilitiesNormalised ==
  AfterEStep =>
    \A b \in Sequences_ :
      LET emissions == batch_emissions[b]
          T == Len(emissions)
          smoothed == hmm_smoother(initial_probs, transition_matrix,
                                   _compute_conditional_logliks(Self, emissions)).smoothed_probs
          N == batch_posteriors[b].N
      IN  /\ \A t \in 1..T : \A k \in States :
               LET r == prob_fn(Self, emissions[t])[k]
               IN  /\ \A m \in Components : RLe(Zero, r[m])
                   /\ SumTo(r, num_components) = One
          /\ \A k \in States :
               SumTo(N[k], num_components) = SumTo([t \in 1..T |-> smoothed[t][k]], T)
          /\ SumTo([k \in States |-> SumTo(N[k], num_components)], num_states) = R(T)

ResponsibilitiesWitness ==
  /\ AfterEStep
  /\ num_states = 2 /\ num_components = 2
  /\ \E b \in Sequences_ :
       /\ Len(batch_emissions[b]) = 3
       /\ \E k \in States :
            LET r == prob_fn(Self, batch_emissions[b][1])[k]
            IN  r[1] # r[2] /\ RAdd(r[1], r[2]) = One
       /\ RLt(Zero, batch_posteriors[b].N[2][1])

\* C7: on a single Gaussian fitted to emissions that all lie on its mean before and
\* after the M-step (there the density of the model is the exact one), and whose
\* posterior variance mode is at most the initial variance, the marginal
\* log-likelihood of the E-step after the first M-step is at least that of the
\* E-step before it: no normaliser p(x[t] | x[1..t-1]) got smaller.
OnMean ==
  \A b \in Sequences_ : \A t \in 1..Len(batch_emissions[b]) : \A n \in Coordinates :
    /\ batch_emissions[b][t][n] = ctor_args.emission_means[1][1][n]
    /\ batch_emissions[b][t][n] = _emission_means[1][1][n]

VarianceShrinks ==
  LET stats == SumBatch(prev_posteriors)
  IN  \A n \in Coordinates :
        RLe(posterior_mode(_emission_prior_mean[1], _emission_prior_mean_concentration[1],
                           _emission_prior_shape[1], _emission_prior_scale[1],
                           << stats.Sx[1][1], stats.SxxT[1][1], stats.N[1][1] >>)[1][n],
            RMul(ctor_args.emission_cov_diag_factors[1][1][n],
                 ctor_args.emission_cov_diag_factors[1][1][n]))

MarginalLoglikAscends ==
  (AfterEStep /\ iter = 1 /\ SingleGaussian /\ OnMean /\ VarianceShrinks) =>
    LET before == SumBatch(prev_posteriors).marginal_loglik
        after == SumBatch(batch_posteriors).marginal_loglik
    IN  \A i \in 1..Len(after) : RLe(before[i], after[i])

\* C8: the constructor call expands a scalar hyperparameter to its expected shape
\* ((M,) for the concentration, the mean concentration and the shape, (M, D) for the
\* prior mean and the prior scale) and takes an array as it is; when every expanded
\* shape is the expected one the instance exists and stores the expanded values,
\* otherwise the call raises AssertionError.
IsScalar(arg) == arg.kind \in { "float", "int" }

Hypers(a) ==
  LET M == Len(a.emission_means[1])
      D == Len(a.emission_means[1][1])
  IN  << [arg |-> a.emission_mixture_weights_concentration, shape |-> << M >>,
          stored |-> _emission_mixture_weights_concentration],
         [arg |-> a.emission_prior_mean, shape |-> << M, D >>,
          stored |-> _emission_prior_mean],
         [arg |-> a.emission_prior_mean_concentration, shape |-> << M >>,
          stored |-> _emission_prior_mean_concentration],
         [arg |-> a.emission_prior_shape, shape |-> << M >>,
          stored |-> _emission_prior_shape],
         [arg |-> a.emission_prior_scale, shape |-> << M, D >>,
          stored |-> _emission_prior_scale] >>

ExpandedShape(h) == IF IsScalar(h.arg) THEN h.shape ELSE h.arg.shape

Expanded(h) == IF IsScalar(h.arg) THEN Ones(h.shape, h.arg.value) ELSE h.arg.value

ConstructorValidates ==
  instance # "none" =>
    LET hs == Hypers(ctor_args)
    IN  IF \A i \in 1..5 : ExpandedShape(hs[i]) = hs[i].shape
        THEN /\ instance = "model"
             /\ \A i \in 1..5 : hs[i].stored = Expanded(hs[i])
        ELSE /\ instance = "failed"
             /\ error = "AssertionError"

\* C9: a step of e_step, emission_distribution or log_prior changes no parameter and
\* no hyperparameter; a step of the M-step leaves initial_probs, transition_matrix
\* and the hyperparameters alone and sets the mixture weights, the means and the
\* cov_diag_factors to values that are the same whatever the old ones were; and the
\* hyperparameters of the instance are always those of the constructor call.
Scrubbed(self) ==
  [self EXCEPT
     !.emission_mixture_weights =
        [k \in DOMAIN @ |-> [m \in DOMAIN @[k] |-> << 1, 7 >>]],
     !.emission_means =
        [k \in DOMAIN @ |-> [m \in DOMAIN @[k] |-> [n \in DOMAIN @[k][m] |-> R(7)]]],
     !.emission_cov_diag_factors =
        [k \in DOMAIN @ |-> [m \in DOMAIN @[k] |-> [n \in DOMAIN @[k][m] |-> R(7)]]]]

FrameStep ==
  /\ lastOp' \in { "e_step", "emission_distribution", "log_prior" } =>
       UNCHANGED << free_params, frozen_params >>
  /\ lastOp' = "m_step" =>
       LET new == _m_step_emissions(Scrubbed(Self), batch_posteriors)
       IN  /\ _emission_mixture_weights' = new.emission_mixture_weights
           /\ _emission_means' = new.emission_means
           /\ _emission_cov_diag_factors' = new.emission_cov_diag_factors
           /\ UNCHANGED << initial_probs, transition_matrix, frozen_params >>
  /\ instance' = "model" =>
       LET m == GaussianMixtureDiagHMM(ctor_args')
       IN  frozen_params' =
             << m.initial_probs_concentration, m.transition_matrix_concentration,
                m.emission_mixture_weights_concentration, m.emission_prior_mean,
                m.emission_prior_mean_concentration, m.emission_prior_shape,
                m.emission_prior_scale >>

FrameOfOperations == [][FrameStep]_vars

FrameWitness ==
  /\ Alive /\ lastOp = "log_prior" /\ iter = 1
  /\ _emission_means # ctor_args.emission_means
  /\ _emission_cov_diag_factors # ctor_args.emission_cov_diag_factors
  /\ initial_probs = ctor_args.initial_probabilities
  /\ _emission_prior_mean = GaussianMixtureDiagHMM(ctor_args).emission_prior_mean
  /\ returned = log_prior(Self)

\* C10: e_step returns one record per sequence, in the order of the batch; record i
\* is what e_step returns for sequence i alone, and it stays the same when every
\* other sequence of the batch is replaced.
OtherValue(v) == CHOOSE w \in { R(u) : u \in EmissionValues } : w # v

Elsewhere(batch, i) ==
  [b \in 1..Len(batch) |->
     IF b = i THEN batch[b]
     ELSE [t \in 1..Len(batch[b]) |-> [n \in 1..Len(batch[b][t]) |->
             OtherValue(batch[b][t][n])]]]

SequencesIndependent ==
  AfterEStep =>
    /\ Len(batch_posteriors) = Len(batch_emissions)
    /\ \A i \in Sequences_ :
         /\ batch_posteriors[i] = e_step(Self, << batch_emissions[i] >>)[1]
         /\ e_step(Self, Elsewhere(batch_emissions, i))[i] = batch_posteriors[i]

SequencesIndependentWitness ==
  /\ AfterEStep
  /\ num_states = 2 /\ num_components = 2
  /\ Len(batch_emissions) = 2
  /\ batch_posteriors[1] # batch_posteriors[2]
  /\ batch_posteriors[2] = e_step(Self, << batch_emissions[2] >>)[1]


====
